---- MODULE Spec2Model ----
(***************************************************************************)
(* A model of the Alive2 translation validator: the refinement checker     *)
(* (tools/transform.cpp), the typing enumeration, the type system          *)
(* (ir/type.cpp) and the surface parser (tools/alive_parser.cpp).          *)
(*                                                                         *)
(* SMT expressions are modelled by their meaning: a bit-vector of width w  *)
(* is a number in 0..2^w-1, a boolean expression is its truth value under  *)
(* an assignment of the free variables, and a query is satisfiable when    *)
(* some assignment of its free variables makes it true for every           *)
(* assignment of its quantified variables.                                 *)
(***************************************************************************)
EXTENDS Integers, Sequences, FiniteSets, TLC

(***************************************************************************)
(* Bounds of the model.                                                    *)
(***************************************************************************)
\* the integer types of a verified transform are i1..iMaxBits
MaxBits == 2

(***************************************************************************)
(* Bit-vector arithmetic of the SMT term layer, on numbers in 0..2^w-1.    *)
(***************************************************************************)
Pow2(n) == 2^n

BV(w) == 0..(Pow2(w) - 1)

\* expr::mkUInt(n, bits): the numeral n in a bit-vector sort of that width
mkUInt(n, w) == n % Pow2(w)

\* the two's complement reading of a bit-vector
ToSigned(v, w) == IF v >= Pow2(w - 1) THEN v - Pow2(w) ELSE v

\* expr::mkInt(n, bits)
mkInt(n, w) == n % Pow2(w)

\* expr::IntMin(bits)
IntMin(w) == Pow2(w - 1)

Abs(n) == IF n < 0 THEN 0 - n ELSE n

SignedInRange(n, w) == (0 - Pow2(w - 1)) <= n /\ n < Pow2(w - 1)

\* bvudiv: division by zero yields all ones
bv_udiv(a, b, w) == IF b = 0 THEN Pow2(w) - 1 ELSE a \div b

\* bvsdiv: truncating signed division; by zero it yields 1 for a negative
\* dividend and all ones otherwise
bv_sdiv(a, b, w) ==
  LET sa == ToSigned(a, w)
      sb == ToSigned(b, w)
      q  == Abs(sa) \div Abs(sb)
  IN  IF b = 0 THEN (IF sa < 0 THEN 1 ELSE Pow2(w) - 1)
      ELSE IF (sa < 0) = (sb < 0) THEN mkInt(q, w) ELSE mkInt(0 - q, w)

bv_shl(a, b, w) == IF b >= w THEN 0 ELSE (a * Pow2(b)) % Pow2(w)

bv_lshr(a, b, w) == IF b >= w THEN 0 ELSE a \div Pow2(b)

bv_ashr(a, b, w) ==
  IF b >= w THEN (IF ToSigned(a, w) < 0 THEN Pow2(w) - 1 ELSE 0)
  ELSE mkInt(ToSigned(a, w) \div Pow2(b), w)

(***************************************************************************)
(* The IR: operands, instructions and functions.  An operand refers to an  *)
(* instruction by its position in the function (the Value pointer of the   *)
(* code), never by its name.                                               *)
(***************************************************************************)
Input(n)   == [k |-> "input", n |-> n, i |-> 0]
IntConst(v) == [k |-> "const", n |-> "", i |-> v]
Ref(i)     == [k |-> "instr", n |-> "", i |-> i]
UndefValue(id) == [k |-> "undef", n |-> "", i |-> id]

NoOperand == IntConst(0)

BinOp(name, op, flags, a, b) ==
  [kind |-> "binop", name |-> name, op |-> op, flags |-> flags, a |-> a, b |-> b]

Return(val) ==
  [kind |-> "ret", name |-> "return", op |-> "", flags |-> {}, a |-> val,
   b |-> NoOperand]

Unreachable ==
  [kind |-> "unreachable", name |-> "", op |-> "", flags |-> {},
   a |-> NoOperand, b |-> NoOperand]

\* the flags the parser accepts after each operation
BinOpFlags(op) ==
  IF op \in {"Add", "Sub", "Mul", "Shl"} THEN SUBSET {"NSW", "NUW"}
  ELSE {{}, {"Exact"}}

BinOpOps == {"Add", "Sub", "Mul", "SDiv", "UDiv", "Shl", "LShr", "AShr"}

InputNames == {"%x", "%y"}

\* the names whose first character is '%'
PercentNames == {"%x", "%y", "%r", "%a", "%b"}

\* the undef symbols a function uses
UndefIds(f) ==
  {f[j].a.i : j \in {j \in DOMAIN f : f[j].kind \in {"binop", "ret"} /\ f[j].a.k = "undef"}}
  \cup {f[j].b.i : j \in {j \in DOMAIN f : f[j].kind = "binop" /\ f[j].b.k = "undef"}}

(***************************************************************************)
(* Symbolic execution.  A state is evaluated under an environment env =    *)
(* [inp: values of the inputs, undef: values of the undef symbols].        *)
(***************************************************************************)
StateValue(value, non_poison) == [value |-> value, non_poison |-> non_poison]

OperandValue(o, env, vals, w) ==
  CASE o.k = "input" -> StateValue(env.inp[o.n], TRUE)
    [] o.k = "const" -> StateValue(mkUInt(o.i, w), TRUE)
    [] o.k = "undef" -> StateValue(env.undef[o.i], TRUE)
    [] o.k = "instr" -> vals[o.i]

\* the value of a BinOp
BinOpValue(op, a, b, w) ==
  CASE op = "Add"  -> (a + b) % Pow2(w)
    [] op = "Sub"  -> (a - b) % Pow2(w)
    [] op = "Mul"  -> (a * b) % Pow2(w)
    [] op = "SDiv" -> bv_sdiv(a, b, w)
    [] op = "UDiv" -> bv_udiv(a, b, w)
    [] op = "Shl"  -> bv_shl(a, b, w)
    [] op = "LShr" -> bv_lshr(a, b, w)
    [] op = "AShr" -> bv_ashr(a, b, w)

\* the condition a BinOp adds to the state's UB accumulator
BinOpUB(op, a, b, w) ==
  CASE op = "SDiv" -> b # 0 /\ ~(a = IntMin(w) /\ b = mkInt(-1, w))
    [] op = "UDiv" -> b # 0
    [] op \in {"Shl", "LShr", "AShr"} -> b < w
    [] OTHER -> TRUE

\* the condition a BinOp adds to its result's non_poison
BinOpNonPoison(op, flags, a, b, w) ==
  LET sa == ToSigned(a, w)
      sb == ToSigned(b, w)
  IN CASE op = "Add" ->
            /\ ("NSW" \in flags => SignedInRange(sa + sb, w))
            /\ ("NUW" \in flags => a + b < Pow2(w))
       [] op = "Sub" ->
            /\ ("NSW" \in flags => SignedInRange(sa - sb, w))
            /\ ("NUW" \in flags => a >= b)
       [] op = "Mul" ->
            /\ ("NSW" \in flags => SignedInRange(sa * sb, w))
            /\ ("NUW" \in flags => a * b < Pow2(w))
       [] op = "Shl" ->
            /\ ("NSW" \in flags => bv_ashr(bv_shl(a, b, w), b, w) = a)
            /\ ("NUW" \in flags => bv_lshr(bv_shl(a, b, w), b, w) = a)
       [] op = "SDiv" ->
            ("Exact" \in flags => mkInt(ToSigned(bv_sdiv(a, b, w), w) * sb, w) = a)
       [] op = "UDiv" ->
            ("Exact" \in flags => mkUInt(bv_udiv(a, b, w) * b, w) = a)
       [] op = "LShr" ->
            ("Exact" \in flags => bv_shl(bv_lshr(a, b, w), b, w) = a)
       [] op = "AShr" ->
            ("Exact" \in flags => bv_shl(bv_ashr(a, b, w), b, w) = a)

\* the state before the first instruction
InitState ==
  [domain |-> TRUE, ub |-> TRUE, vals |-> <<>>, returned |-> FALSE,
   return_domain |-> FALSE, return_val |-> StateValue(0, TRUE)]

\* one instruction executed in state st under env
ExecInstr(ins, st, env, w) ==
  CASE ins.kind = "binop" ->
         LET a == OperandValue(ins.a, env, st.vals, w)
             b == OperandValue(ins.b, env, st.vals, w)
             v == StateValue(BinOpValue(ins.op, a.value, b.value, w),
                             /\ a.non_poison
                             /\ b.non_poison
                             /\ BinOpNonPoison(ins.op, ins.flags, a.value, b.value, w))
         IN [st EXCEPT !.vals = Append(@, v),
                       !.ub = @ /\ BinOpUB(ins.op, a.value, b.value, w)]
    [] ins.kind = "ret" ->
         LET v == OperandValue(ins.a, env, st.vals, w)
         IN [st EXCEPT !.vals = Append(@, v),
                       !.returned = TRUE,
                       !.return_domain = @ \/ (st.domain /\ st.ub),
                       !.return_val = IF st.returned THEN @ ELSE v,
                       !.domain = FALSE]
    [] ins.kind = "unreachable" ->
         [st EXCEPT !.vals = Append(@, StateValue(0, TRUE)),
                    !.ub = FALSE,
                    !.domain = FALSE]

RECURSIVE ExecFrom(_, _, _, _, _)
ExecFrom(f, j, st, env, w) ==
  IF j > Len(f) THEN st
  ELSE ExecFrom(f, j + 1, ExecInstr(f[j], st, env, w), env, w)

\* sym_exec: the whole function executed, under env
sym_exec(f, env, w) == ExecFrom(f, 1, InitState, env, w)

\* State::fnReturned: a Return was executed
fnReturned(f) == \E j \in DOMAIN f : f[j].kind = "ret"

(***************************************************************************)
(* The state of the model.                                                 *)
(***************************************************************************)
VARIABLES
  \* Transform::verify
  src,            \* Transform::src, a sequence of instructions
  tgt,            \* Transform::tgt
  bits,           \* the width the typing assignment gives the integer types
  check_each_var, \* TransformVerifyOpts::check_each_var
  pc,             \* the position of Transform::verify
  vi,             \* the position of the loop over src_state.getValues()
  tgt_vals,       \* the map from names to target instructions
  errs,           \* the Errors being built
  qlog,           \* the latest batch: each query's result and callback
  answers,        \* the results the solver has given in this verification
  log_models      \* whether qlog keeps the countermodels the callbacks saw

verify_vars ==
  <<src, tgt, bits, check_each_var, pc, vi, tgt_vals, errs, qlog, answers,
    log_models>>

VARIABLES
  \* a Type object and the model it is fixed up with
  ty,             \* the Type: an IntType or a SymbolicType
  ty0,            \* the Type as constructed
  ty1,            \* the Type as the first fixup left it
  model,          \* the Model: the values of the type and the bw variable
  fixups,         \* the number of fixup(m) calls made
  sat,            \* the value of getTypeConstraints() under m, once taken
  type_pc         \* "ready", or "aborted" by an assertion of fixup

type_vars == <<ty, ty0, ty1, model, fixups, sat, type_pc>>

VARIABLES
  \* TypingAssignments
  constraints,    \* the type constraints, as the set of their models
  solver,         \* the Solver's assertions, as the set of their models
  result,         \* TypingAssignments::r
  yielded,        \* the typing assignments TypingAssignments::r has held so far
  ta_pc           \* "new", "iterating", or "aborted" by an assertion

typing_vars == <<constraints, solver, result, yielded, ta_pc>>

VARIABLES
  \* the parser
  ps,             \* the tokenizer, the identifiers and the Function built
  parse_pc        \* "parse_fn", "returned", or "error" (ParseException)

parse_vars == <<ps, parse_pc>>

VARIABLES
  tv,             \* TVPass: fns and the calls of runOnFunction
  eq,             \* two Types, a model, and what their operator== gives
  cnst            \* a Constant, the state it is evaluated in, its StateValue

tv_vars == <<tv>>

eq_vars == <<eq>>

const_vars == <<cnst>>

vars ==
  <<verify_vars, type_vars, typing_vars, parse_vars, tv_vars, eq_vars,
    const_vars>>

\* the parts of the program a specification does not run
VerifyIdle ==
  /\ src = <<>> /\ tgt = <<>> /\ bits = 1 /\ check_each_var = FALSE
  /\ pc = "idle" /\ vi = 1 /\ tgt_vals = <<>> /\ errs = <<>> /\ qlog = <<>>
  /\ answers = {} /\ log_models = FALSE

TypeIdle ==
  /\ ty = <<>> /\ ty0 = <<>> /\ ty1 = <<>> /\ model = <<>> /\ fixups = 0
  /\ sat = "unevaluated" /\ type_pc = "idle"

TypingIdle ==
  /\ constraints = {} /\ solver = {} /\ result = <<>> /\ yielded = <<>> /\ ta_pc = "idle"

ParseIdle ==
  /\ ps = <<>> /\ parse_pc = "idle"

TVIdle == tv = <<>>

EqIdle == eq = <<>>

ConstIdle == cnst = <<>>

(***************************************************************************)
(* The refinement queries of check_refinement.                             *)
(***************************************************************************)
\* a selector of the two values compared: the return values, or the values
\* of source instruction si and target instruction ti
RetSel == [kind |-> "ret", si |-> 0, ti |-> 0]
ValSel(si, ti) == [kind |-> "val", si |-> si, ti |-> ti]

\* the first Return of a function (State::returnVal picks the first one)
FirstReturn(f) ==
  CHOOSE j \in DOMAIN f : f[j].kind = "ret" /\ \A k \in 1..(j - 1) : f[k].kind # "ret"

\* the undef symbols the value of an operand is built from
RECURSIVE OperandUndefs(_, _)
OperandUndefs(f, o) ==
  CASE o.k = "undef" -> {o.i}
    [] o.k = "instr" ->
         IF f[o.i].kind = "binop"
         THEN OperandUndefs(f, f[o.i].a) \cup OperandUndefs(f, f[o.i].b)
         ELSE IF f[o.i].kind = "ret" THEN OperandUndefs(f, f[o.i].a) ELSE {}
    [] OTHER -> {}

\* State::ValTy::second of the source value: its undef variables
ValueUndefs(f, sel) ==
  IF sel.kind = "ret"
  THEN (IF fnReturned(f) THEN OperandUndefs(f, f[FirstReturn(f)].a) ELSE {})
  ELSE OperandUndefs(f, Ref(sel.si))

\* State::getQuantVars: the symbols the state quantifies
getQuantVars(f) == UndefIds(f)

\* dom and the StateValue handed to check_refinement for one side
View(st, sel, idx) ==
  IF sel.kind = "ret"
  THEN [dom |-> st.return_domain, val |-> st.return_val]
  ELSE [dom |-> TRUE, val |-> st.vals[idx]]

\* check_refinement with the domain query turned around
QueryBodyDomainFlipped(q, a, b) ==
  CASE q = 1 -> b.dom /\ ~a.dom
    [] q = 2 -> a.dom /\ (a.val.non_poison /\ ~b.val.non_poison)
    [] q = 3 -> a.dom /\ a.val.non_poison /\ a.val.value # b.val.value

\* check_refinement with the poison query turned around
QueryBodyPoisonFlipped(q, a, b) ==
  CASE q = 1 -> a.dom /\ ~b.dom
    [] q = 2 -> a.dom /\ (b.val.non_poison /\ ~a.val.non_poison)
    [] q = 3 -> a.dom /\ a.val.non_poison /\ a.val.value # b.val.value

\* the body of query q of check_refinement, under an assignment
QueryBody(q, a, b) ==
  CASE q = 1 -> a.dom /\ ~b.dom
    [] q = 2 -> a.dom /\ (a.val.non_poison /\ ~b.val.non_poison)
    [] q = 3 -> a.dom /\ a.val.non_poison /\ a.val.value # b.val.value

\* the assignments of a set of symbols
Assignments(S, w) == [S -> BV(w)]

\* the countermodels of query q: the assignments of the free variables under
\* which the body holds for every assignment of the quantified ones
Models(q, s, t, sel, w) ==
  LET qs   == ValueUndefs(s, sel)
      free == UndefIds(s) \ qs
  IN { m \in [inp : Assignments(InputNames, w), undef : Assignments(free, w)] :
         \A uq \in Assignments(qs, w), ut \in Assignments(getQuantVars(t), w) :
           LET es == [inp |-> m.inp, undef |-> uq @@ m.undef]
               et == [inp |-> m.inp, undef |-> ut]
           IN QueryBody(q, View(sym_exec(s, es, w), sel, sel.si),
                           View(sym_exec(t, et, w), sel, sel.ti)) }

NoModel == [inp |-> <<>>, undef |-> <<>>]

\* Result of Solver::check on one query, given its countermodels (when the
\* log drops the models, one of them stands for all: the successor states
\* are the same)
Results(models) ==
  {[a |-> "SAT", m |-> m] :
     m \in IF log_models \/ models = {} THEN models
           ELSE {CHOOSE m \in models : TRUE}}
  \cup (IF models = {} THEN {[a |-> "UNSAT", m |-> NoModel]} ELSE {})
  \cup {[a |-> "UNKNOWN", m |-> NoModel], [a |-> "INVALID", m |-> NoModel]}

\* the message each callback of check_refinement adds
ErrorMessage(q) ==
  CASE q = 1 -> "Source is more defined than target"
    [] q = 2 -> "Target is more poisonous than source"
    [] q = 3 -> "value mismatch"

\* Errors::add
Errors_add(e, str) == Append(e, str)

\* check_refinement with the first callback pasted over the others
CallbackPasted(q, e, m) == Errors_add(e, ErrorMessage(1))

\* the callback of query q of check_refinement, run with a model
Callback(q, e, m) == Errors_add(e, ErrorMessage(q))

\* the batch Solver::check: each query is checked on its own and its
\* callback runs with the model when the result is Sat
RECURSIVE Solver_check(_, _, _)
Solver_check(rs, q, e) ==
  IF q > Len(rs) THEN e
  ELSE Solver_check(rs, q + 1,
                    IF rs[q].a = "SAT" THEN Callback(q, e, rs[q].m) ELSE e)

\* the log entries of one batch
BatchLog(rs, sel) ==
  [q \in 1..Len(rs) |->
     [sel |-> sel, q |-> q, a |-> rs[q].a, base |-> Len(errs),
      called |-> rs[q].a = "SAT",
      m |-> IF log_models THEN rs[q].m ELSE NoModel]]

\* check_refinement: the three queries, dispatched as one batch
check_refinement(sel) ==
  \E r1 \in Results(Models(1, src, tgt, sel, bits)),
     r2 \in Results(Models(2, src, tgt, sel, bits)),
     r3 \in Results(Models(3, src, tgt, sel, bits)) :
       /\ errs' = Solver_check(<<r1, r2, r3>>, 1, errs)
       /\ qlog' = BatchLog(<<r1, r2, r3>>, sel)
       /\ answers' = answers \cup {r1.a, r2.a, r3.a}

(***************************************************************************)
(* Transform::verify.                                                      *)
(***************************************************************************)
InputOrder == <<"%x", "%y">>

UsesInput(f, n) ==
  \E j \in DOMAIN f :
    \/ f[j].kind \in {"binop", "ret"} /\ f[j].a = Input(n)
    \/ f[j].kind = "binop" /\ f[j].b = Input(n)

\* State::getValues: the inputs, then the instructions, in execution order
getValues(f) ==
  [j \in 1..Len(SelectSeq(InputOrder, LAMBDA n : UsesInput(f, n))) |->
     [name |-> SelectSeq(InputOrder, LAMBDA n : UsesInput(f, n))[j],
      instr |-> FALSE, idx |-> 0]]
  \o [j \in 1..Len(f) |-> [name |-> f[j].name, instr |-> TRUE, idx |-> j]]

\* tgt_vals after the loop of emplace calls: the first instruction of each name
TgtVals(f) ==
  [n \in {f[j].name : j \in DOMAIN f} |->
     CHOOSE j \in DOMAIN f : f[j].name = n /\ \A k \in 1..(j - 1) : f[k].name # n]

\* the test that skips a value in the check_each_var loop
SkipValue(v) == v.name \notin PercentNames \/ ~v.instr

\* Transform::verify without the test of the two fnReturned() flags
ReturnMismatchNever == FALSE

\* Transform::verify with == for != in the test of the two flags
ReturnMismatchInverted == fnReturned(src) = fnReturned(tgt)

\* the test of the return stage that reports a mismatch without a query
ReturnMismatch == fnReturned(src) # fnReturned(tgt)

\* lines 44-57: the name map, the symbolic execution, the empty Errors
VerifyBegin ==
  /\ pc = "begin"
  /\ tgt_vals' = TgtVals(tgt)
  /\ errs' = <<>>
  /\ vi' = 1
  /\ pc' = IF check_each_var THEN "each_var" ELSE "return"
  /\ UNCHANGED <<src, tgt, bits, check_each_var, qlog, answers, log_models>>
  /\ UNCHANGED <<type_vars, typing_vars, parse_vars,
                 tv_vars, eq_vars, const_vars>>

\* lines 58-66: one iteration of the loop over the source values
VerifyEachVar ==
  /\ pc = "each_var"
  /\ vi <= Len(getValues(src))
  /\ LET v == getValues(src)[vi]
     IN IF SkipValue(v)
        THEN /\ vi' = vi + 1
             /\ UNCHANGED <<pc, errs, qlog, answers>>
        ELSE IF v.name \notin DOMAIN tgt_vals
        THEN \* tgt_vals.at(name) throws std::out_of_range
             /\ pc' = "threw"
             /\ UNCHANGED <<vi, errs, qlog, answers>>
        ELSE /\ check_refinement(ValSel(v.idx, tgt_vals[v.name]))
             /\ vi' = vi + 1
             /\ pc' = pc
  /\ UNCHANGED <<src, tgt, bits, check_each_var, tgt_vals, log_models>>
  /\ UNCHANGED <<type_vars, typing_vars, parse_vars,
                 tv_vars, eq_vars, const_vars>>

\* the loop ends
VerifyEachVarEnd ==
  /\ pc = "each_var"
  /\ vi > Len(getValues(src))
  /\ pc' = "return"
  /\ UNCHANGED <<src, tgt, bits, check_each_var, vi, tgt_vals, errs, qlog,
                 answers, log_models>>
  /\ UNCHANGED <<type_vars, typing_vars, parse_vars,
                 tv_vars, eq_vars, const_vars>>

\* lines 69-81: the return stage
VerifyReturn ==
  /\ pc = "return"
  /\ IF ReturnMismatch
     THEN /\ errs' = Errors_add(errs, IF fnReturned(src)
                                      THEN "Source returns but target doesn't"
                                      ELSE "Target returns but source doesn't")
          /\ UNCHANGED <<qlog, answers>>
     ELSE IF fnReturned(src)
     THEN check_refinement(RetSel)
     ELSE UNCHANGED <<errs, qlog, answers>>
  /\ pc' = "done"
  /\ UNCHANGED <<src, tgt, bits, check_each_var, vi, tgt_vals, log_models>>
  /\ UNCHANGED <<type_vars, typing_vars, parse_vars,
                 tv_vars, eq_vars, const_vars>>

Verify == VerifyBegin \/ VerifyEachVar \/ VerifyEachVarEnd \/ VerifyReturn

(***************************************************************************)
(* The transforms verified.                                                *)
(***************************************************************************)
InX == Input("%x")
InY == Input("%y")

\* one BinOp on %x and another operand, returned
OneBinOp(op, flags, b) == <<BinOp("%r", op, flags, InX, b), Return(Ref(1))>>

AddXY(flags) == OneBinOp("Add", flags, InY)

\* the operation and flag combinations of the pool of transforms
PoolOpFlags ==
  {<<op, {}>> : op \in BinOpOps}
  \cup {<<"Add", {"NSW"}>>, <<"Sub", {"NUW"}>>, <<"Mul", {"NSW"}>>,
        <<"Shl", {"NUW"}>>, <<"SDiv", {"Exact"}>>, <<"LShr", {"Exact"}>>}

FnPool ==
  {OneBinOp(of[1], of[2], InY) : of \in PoolOpFlags}
  \cup {OneBinOp("Add", fl, IntConst(1)) : fl \in {{}, {"NSW"}}}
  \cup {<<Return(IntConst(0))>>, <<Unreachable>>, <<Return(UndefValue(1))>>,
        OneBinOp("UDiv", {}, UndefValue(1)),
        <<BinOp("%r", "Add", {}, InX, InY), Unreachable>>,
        <<BinOp("%a", "Add", {}, InX, InY), Return(InX)>>,
        <<BinOp("%a", "Sub", {}, InX, InY), Return(InX)>>,
        <<BinOp("%a", "UDiv", {}, InX, UndefValue(1)), Return(InX)>>}

InitVerify(pairs, keep) ==
  /\ log_models = keep
  /\ answers = {}
  /\ \E p \in pairs : src = p[1] /\ tgt = p[2]
  /\ bits \in 1..MaxBits
  /\ check_each_var \in BOOLEAN
  /\ pc = "begin"
  /\ vi = 1
  /\ tgt_vals = <<>>
  /\ errs = <<>>
  /\ qlog = <<>>
  /\ TypeIdle /\ TypingIdle /\ ParseIdle
  /\ TVIdle /\ EqIdle /\ ConstIdle

Init == InitVerify(FnPool \X FnPool, FALSE)

Next == Verify

Spec == Init /\ [][Next]_vars

(***************************************************************************)
(* A function verified against itself.                                     *)
(***************************************************************************)
AllOpFlags == {<<op, fl>> \in BinOpOps \X SUBSET {"NSW", "NUW", "Exact"} : fl \in BinOpFlags(op)}

\* every flag an operation accepts, at once
FullFlags(op) == IF op \in {"Add", "Sub", "Mul", "Shl"} THEN {"NSW", "NUW"} ELSE {"Exact"}

\* the ways a function ends after its instruction n: in a return of it, in
\* unreachable, or with no terminator
Endings(n) == {<<Return(Ref(n))>>, <<Unreachable>>, <<>>}

ReflPool ==
  {<<BinOp("%a", of[1], of[2], a, b)>> \o e :
     of \in AllOpFlags, a \in {InX}, b \in {InX, InY, IntConst(1)},
     e \in Endings(1)}
  \cup {<<BinOp("%a", op1, {}, InX, InY), BinOp("%b", of[1], of[2], Ref(1), InY),
          Return(Ref(2))>> :
          op1 \in {"Sub", "UDiv", "Shl"}, of \in {x \in AllOpFlags : x[2] \in {{}, FullFlags(x[1])}}}
  \cup {<<Return(UndefValue(1))>>, <<Return(InX), Return(InY)>>,
        <<BinOp("%a", "UDiv", {}, InX, UndefValue(1)), Return(Ref(1))>>,
        <<BinOp("%a", "UDiv", {}, InX, UndefValue(1)), Return(InX)>>,
        <<BinOp("%a", "Add", {"NSW"}, InX, UndefValue(1)), Return(Ref(1))>>,
        <<Unreachable, Return(IntConst(1))>>}

ReflSpec == InitVerify({<<f, f>> : f \in ReflPool}, FALSE) /\ [][Next]_vars

(***************************************************************************)
(* A few transforms whose batches are logged with their countermodels.     *)
(***************************************************************************)
BatchPool ==
  {OneBinOp("SDiv", {}, IntConst(3)),
   OneBinOp("Add", {}, IntConst(1)), OneBinOp("Add", {"NSW"}, IntConst(1)),
   <<Unreachable>>, <<Return(UndefValue(1))>>,
   <<BinOp("%r", "Add", {}, InX, IntConst(1)), Unreachable>>}

BatchSpec == InitVerify(BatchPool \X BatchPool, TRUE) /\ [][Next]_vars

(***************************************************************************)
(* Properties of the refinement check.                                     *)
(***************************************************************************)
Range(s) == {s[i] : i \in DOMAIN s}

\* the entries the latest batch added to errs
Added ==
  IF qlog = <<>> THEN <<>>
  ELSE SubSeq(errs, qlog[1].base + 1,
              qlog[1].base + Cardinality({q \in DOMAIN qlog : qlog[q].called}))

\* the solver has decided every query so far
Decided == answers \subseteq {"SAT", "UNSAT"}

\* some assignment of the inputs (and of the free symbols) makes Cond hold
\* of the two compared values for every assignment of the quantified symbols
SomeInput(Cond(_, _), sel) ==
  LET qs   == ValueUndefs(src, sel)
      free == UndefIds(src) \ qs
  IN \E inp \in Assignments(InputNames, bits), uf \in Assignments(free, bits) :
       \A uq \in Assignments(qs, bits), ut \in Assignments(getQuantVars(tgt), bits) :
         Cond(View(sym_exec(src, [inp |-> inp, undef |-> uq @@ uf], bits), sel, sel.si),
              View(sym_exec(tgt, [inp |-> inp, undef |-> ut], bits), sel, sel.ti))

LessDefined(a, b) == ~(a.dom => b.dom)
MorePoisonous(a, b) == ~((a.dom /\ a.val.non_poison) => b.val.non_poison)
ValueDiffers(a, b) == ~((a.dom /\ a.val.non_poison) => a.val.value = b.val.value)

\* the three refinement conditions hold of the return values for every input
ReturnRefines ==
  /\ ~SomeInput(LessDefined, RetSel)
  /\ ~SomeInput(MorePoisonous, RetSel)
  /\ ~SomeInput(ValueDiffers, RetSel)

BothReturn == fnReturned(src) /\ fnReturned(tgt)

\* C1, as stated: whenever both functions return and the solver decides every
\* query, verify returns no error exactly when the three refinement
\* conditions hold of the return values for every input.
C1_EmptyIffRefines ==
  (pc = "done" /\ BothReturn /\ Decided) => ((errs = <<>>) <=> ReturnRefines)

\* C1, amended: in return-only mode (check_each_var off), when both functions
\* return and the solver decides every query, verify returns no error exactly
\* when the three refinement conditions hold of the return values for every
\* input.
C1_ReturnOnlyEmptyIffRefines ==
  (pc = "done" /\ ~check_each_var /\ BothReturn /\ Decided)
    => ((errs = <<>>) <=> ReturnRefines)

C1_Witness ==
  /\ pc = "done" /\ ~check_each_var /\ BothReturn /\ Decided
  /\ Len(qlog) = 3 /\ src # tgt /\ errs = <<>> /\ ReturnRefines

PoisonMsg == "Target is more poisonous than source"

\* C2, as stated: a batch adds the poison message exactly when some input
\* makes the source defined and non-poisonous and the target poisonous; add
\* nsw => add reports no poison error and add => add nsw reports one.
C2_PoisonIffSomeInput ==
  /\ qlog # <<>> =>
       ((PoisonMsg \in Range(Added)) <=> SomeInput(MorePoisonous, qlog[2].sel))
  /\ (src = AddXY({"NSW"}) /\ tgt = AddXY({})) => PoisonMsg \notin Range(errs)
  /\ (pc = "done" /\ src = AddXY({}) /\ tgt = AddXY({"NSW"}))
       => PoisonMsg \in Range(errs)

\* C2, amended: a batch adds the poison message exactly when the solver
\* answers Sat to the poison query; it can answer Sat only when some input
\* makes the source defined and non-poisonous and the target poisonous, and
\* Unsat only when none does.  add nsw => add never reports a poison error;
\* add => add nsw reports one once the solver decides the poison query.
C2_PoisonIffSat ==
  /\ qlog # <<>> =>
       /\ (PoisonMsg \in Range(Added)) <=> (qlog[2].a = "SAT")
       /\ qlog[2].a = "SAT" => SomeInput(MorePoisonous, qlog[2].sel)
       /\ qlog[2].a = "UNSAT" => ~SomeInput(MorePoisonous, qlog[2].sel)
  /\ (src = AddXY({"NSW"}) /\ tgt = AddXY({})) => PoisonMsg \notin Range(errs)
  /\ (pc = "done" /\ src = AddXY({}) /\ tgt = AddXY({"NSW"})
        /\ qlog[2].a \in {"SAT", "UNSAT"})
       => PoisonMsg \in Range(errs)

C2_Witness ==
  /\ pc = "done" /\ src = AddXY({}) /\ tgt = AddXY({"NSW"})
  /\ PoisonMsg \in Range(Added)

\* C3: when the value query finds an input on which the source is defined and
\* non-poisonous and the two values differ, the entry its callback adds is the
\* string "Value mismatch".
C3_ValueMismatchEntry ==
  (qlog # <<>> /\ qlog[3].called /\ SomeInput(ValueDiffers, qlog[3].sel))
    => "Value mismatch" \in Range(Added)

RetZero == <<Return(IntConst(0))>>

C5_Reflexive == (tgt = src) => (errs = <<>> /\ pc # "threw")

C5_Witness ==
  /\ tgt = src /\ pc = "done" /\ check_each_var /\ Len(src) = 3
  /\ qlog # <<>> /\ Decided /\ errs = <<>>

\* the number of callbacks the latest batch ran
NumCalled == Cardinality({q \in DOMAIN qlog : qlog[q].called})

\* the messages of the queries of the latest batch whose callback ran, in order
RECURSIVE CalledMessages(_)
CalledMessages(q) ==
  IF q > Len(qlog) THEN <<>>
  ELSE (IF qlog[q].called THEN <<ErrorMessage(q)>> ELSE <<>>) \o CalledMessages(q + 1)

\* m is a countermodel of query q of the batch on sel: under it the query's
\* condition holds for every assignment of the quantified symbols
IsCountermodel(m, q, sel) ==
  \A uq \in Assignments(ValueUndefs(src, sel), bits),
     ut \in Assignments(getQuantVars(tgt), bits) :
    LET a == View(sym_exec(src, [inp |-> m.inp, undef |-> uq @@ m.undef], bits), sel, sel.si)
        b == View(sym_exec(tgt, [inp |-> m.inp, undef |-> ut], bits), sel, sel.ti)
    IN CASE q = 1 -> LessDefined(a, b)
         [] q = 2 -> MorePoisonous(a, b)
         [] q = 3 -> ValueDiffers(a, b)

\* the latest change of errs was made by the latest batch
BatchWasLast ==
  qlog # <<>> /\ (pc = "each_var" \/ (pc = "done" /\ ~ReturnMismatch))

\* what C6 says of the callbacks: a callback runs exactly when its own query
\* is Sat, it is handed a countermodel of that query, and the batch adds one
\* entry per callback run and nothing else
CallbacksOnlyOnSat ==
  /\ \A q \in DOMAIN qlog :
       /\ qlog[q].called <=> (qlog[q].a = "SAT")
       /\ qlog[q].called => IsCountermodel(qlog[q].m, q, qlog[q].sel)
       /\ ~qlog[q].called => qlog[q].m = NoModel
  /\ Added = CalledMessages(1)
  /\ BatchWasLast => Len(errs) = qlog[1].base + NumCalled

var_type_bits == 3

var_bw_bits == 10

\* the bound of the declared widths
MaxDeclared == 1100

\* the bound of the fixup calls on one Type
MaxFixups == 2

\* SymbolicType::TypeNum
TypeNum_Int == 0
TypeNum_Float == 1
TypeNum_Ptr == 2
TypeNum_Array == 3
TypeNum_Vector == 4
TypeNum_Undefined == 5

TypeNums == {TypeNum_Int, TypeNum_Float, TypeNum_Ptr, TypeNum_Array, TypeNum_Vector}

\* a Model of the type constraints of one operation
TypeModel(t, bw) == [type |-> t, bw |-> bw]

\* IntType(bitwidth) is a defined type, IntType() an undefined one
IntType(bitwidth, defined) ==
  [kind |-> "IntType", bitwidth |-> bitwidth, defined |-> defined]

\* SymbolicType: the enabled categories (the bits of `enabled`), the chosen
\* one, and the IntType it holds
SymbolicType(enabled) ==
  [kind |-> "SymbolicType", enabled |-> enabled, typ |-> TypeNum_Undefined,
   i |-> IntType(0, FALSE)]

\* IntType::sizeVar, under the model mo
IntType_sizeVar(t, mo) ==
  IF t.defined THEN mkUInt(t.bitwidth, var_bw_bits) ELSE mo.bw

\* IntType::getTypeConstraints, under the model mo
IntType_getTypeConstraints(t, mo) ==
  LET bw == IntType_sizeVar(t, mo)
  IN bw # mkUInt(0, var_bw_bits) /\ bw <= mkUInt(64, var_bw_bits)

\* Type::is
Type_is(t, mo) == mo.type = mkUInt(t, var_type_bits)

\* SymbolicType::isInt, isFloat, isPtr, isArray, isVector
SymbolicType_is(t, n, mo) == n \in t.enabled /\ Type_is(n, mo)

\* a getTypeConstraints of FloatType, PtrType, ArrayType and VectorType
\* that admits every model
TodoType_getTypeConstraintsTrue == TRUE

\* the getTypeConstraints of FloatType, PtrType, ArrayType and VectorType
TodoType_getTypeConstraints == FALSE

\* SymbolicType::getTypeConstraints, under the model mo
SymbolicType_getTypeConstraints(t, mo) ==
  \/ SymbolicType_is(t, TypeNum_Int, mo) /\ IntType_getTypeConstraints(t.i, mo)
  \/ SymbolicType_is(t, TypeNum_Float, mo) /\ TodoType_getTypeConstraints
  \/ SymbolicType_is(t, TypeNum_Ptr, mo) /\ TodoType_getTypeConstraints
  \/ SymbolicType_is(t, TypeNum_Array, mo) /\ TodoType_getTypeConstraints
  \/ SymbolicType_is(t, TypeNum_Vector, mo) /\ TodoType_getTypeConstraints

getTypeConstraints(t, mo) ==
  IF t.kind = "IntType" THEN IntType_getTypeConstraints(t, mo)
  ELSE SymbolicType_getTypeConstraints(t, mo)

\* IntType::fixup writing the width of the model whatever `defined` says
IntType_fixupAlways(t, mo) == [t EXCEPT !.bitwidth = mo.bw]

\* IntType::fixup
IntType_fixup(t, mo) ==
  IF ~t.defined THEN [t EXCEPT !.bitwidth = IntType_sizeVar(t, mo)] ELSE t

\* the two assertions of SymbolicType::fixup
SymbolicType_fixupAsserts(t, mo) ==
  /\ mo.type >= TypeNum_Int /\ mo.type <= TypeNum_Vector
  /\ mo.type \in t.enabled

\* SymbolicType::fixup, its assertions passed: the fixups of FloatType,
\* PtrType, ArrayType and VectorType do nothing
SymbolicType_fixup(t, mo) ==
  LET smt_typ == mo.type
  IN [t EXCEPT !.typ = smt_typ,
               !.i = IF smt_typ = TypeNum_Int THEN IntType_fixup(@, mo) ELSE @]

fixupAsserts(t, mo) ==
  t.kind = "SymbolicType" => SymbolicType_fixupAsserts(t, mo)

fixup(t, mo) ==
  IF t.kind = "IntType" THEN IntType_fixup(t, mo)
  ELSE SymbolicType_fixup(t, mo)

\* t.getTypeConstraints() is evaluated under the model
TypeGetConstraints ==
  /\ type_pc = "ready"
  /\ sat = "unevaluated"
  /\ sat' = IF getTypeConstraints(ty, model) THEN "sat" ELSE "unsat"
  /\ UNCHANGED <<ty, ty0, ty1, model, fixups, type_pc>>
  /\ UNCHANGED <<verify_vars, typing_vars, parse_vars,
                 tv_vars, eq_vars, const_vars>>

\* t.fixup(model)
TypeFixup ==
  /\ type_pc = "ready"
  /\ fixups < MaxFixups
  /\ IF fixupAsserts(ty, model)
     THEN /\ ty' = fixup(ty, model)
          /\ ty1' = IF fixups = 0 THEN ty' ELSE ty1
          /\ fixups' = fixups + 1
          /\ UNCHANGED type_pc
     ELSE /\ type_pc' = "aborted"
          /\ UNCHANGED <<ty, ty1, fixups>>
  /\ UNCHANGED <<ty0, model, sat>>
  /\ UNCHANGED <<verify_vars, typing_vars, parse_vars,
                 tv_vars, eq_vars, const_vars>>

\* the widths of the model looked at with a defined or a symbolic type
BwEdges == {0, 1, 64, 65, Pow2(var_bw_bits) - 1}

\* the types and the models they meet: every declared width, every value
\* of the bw variable for an undefined IntType, every set of enabled
\* categories and every value of the type variable for a SymbolicType
TypeInits ==
  {<<IntType(w, TRUE), TypeModel(TypeNum_Int, bw)>> :
     w \in 0..MaxDeclared, bw \in BwEdges}
  \cup {<<IntType(0, FALSE), TypeModel(TypeNum_Int, bw)>> : bw \in BV(var_bw_bits)}
  \cup {<<SymbolicType(en), TypeModel(t, bw)>> :
          en \in SUBSET TypeNums, t \in BV(var_type_bits), bw \in BwEdges}

TypeInit ==
  /\ \E p \in TypeInits : ty = p[1] /\ model = p[2]
  /\ ty0 = ty
  /\ ty1 = ty
  /\ fixups = 0
  /\ sat = "unevaluated"
  /\ type_pc = "ready"
  /\ VerifyIdle /\ TypingIdle /\ ParseIdle
  /\ TVIdle /\ EqIdle /\ ConstIdle

TypeNext == TypeGetConstraints \/ TypeFixup

TypeSpec == TypeInit /\ [][TypeNext]_vars

\* the width an IntType stands for under the model
IntWidth == IF ty.defined THEN ty.bitwidth ELSE model.bw

\* C8: IntType::getTypeConstraints is satisfied exactly when the width (the
\* bw variable for an undefined IntType, the declared width for a defined
\* one) is in 1..64
C8_IntConstraintIffWidthInRange ==
  (type_pc = "ready" /\ ty.kind = "IntType" /\ sat # "unevaluated")
    => ((sat = "sat") <=> (IntWidth \in 1..64))

\* C9: a second fixup(m) leaves the Type (its chosen category and its
\* width) as the first left it, and a defined IntType keeps its declared
\* width whatever the model says
C9_FixupIdempotent ==
  type_pc # "idle" =>
    /\ fixups >= 1 => ty = ty1
    /\ (ty0.kind = "IntType" /\ ty0.defined) => ty.bitwidth = ty0.bitwidth

\* a Type fixed up twice that its first fixup changed
C9_Witness ==
  /\ type_pc = "ready"
  /\ fixups >= 2
  /\ ty # ty0

(***************************************************************************)
(* The enumeration of the typing assignments.  A constraint and the        *)
(* assertions of the Solver are kept as the sets of their models.          *)
(***************************************************************************)
\* the bound of the widths the type constraints admit
MaxTypings == 2

\* the models a type constraint of the pool may admit
CandidateTypings ==
  {TypeModel(t, bw) : t \in {TypeNum_Int, TypeNum_Ptr}, bw \in 1..MaxTypings}

NoTyping == TypeModel(0, 0)

\* Result(): the answer of a Result not yet assigned is UNKNOWN
DefaultResult == [a |-> "UNKNOWN", m |-> NoTyping]

\* Solver::check on assertions with these models
TypingResults(models) ==
  {[a |-> "SAT", m |-> mo] : mo \in models}
  \cup (IF models = {} THEN {[a |-> "UNSAT", m |-> NoTyping]} ELSE {})
  \cup {[a |-> "UNKNOWN", m |-> NoTyping], [a |-> "INVALID", m |-> NoTyping]}

\* Solver::add: the assertion is conjoined
Solver_add(models, ex) == models \cap ex

\* Solver::block: the negation of the model's assignment is asserted
Solver_block(models, mo) == models \ {mo}

\* what r has held, with the model of a new Sat result
Yield(ys, res) == IF res.a = "SAT" THEN Append(ys, res.m) ELSE ys

\* TypingAssignments::TypingAssignments
TypingAssignments_ctor ==
  /\ ta_pc = "new"
  /\ solver' = Solver_add(solver, constraints)
  /\ \E res \in TypingResults(solver') :
       /\ result' = res
       /\ yielded' = Yield(yielded, res)
  /\ ta_pc' = "iterating"
  /\ UNCHANGED constraints
  /\ UNCHANGED <<verify_vars, type_vars, parse_vars,
                 tv_vars, eq_vars, const_vars>>

\* operator++ re-checking without blocking the current model
TypingAssignments_incNoBlock ==
  /\ ta_pc = "iterating"
  /\ result.a = "SAT"
  /\ solver' = solver
  /\ \E res \in TypingResults(solver') :
       /\ result' = res
       /\ yielded' = Yield(yielded, res)
       /\ ta_pc' = IF res.a = "UNKNOWN" THEN "aborted" ELSE ta_pc
  /\ UNCHANGED constraints
  /\ UNCHANGED <<verify_vars, type_vars, parse_vars,
                 tv_vars, eq_vars, const_vars>>

\* TypingAssignments::operator++, called while r is Sat (getModel asserts
\* it); the closing assertion aborts on an Unknown result
TypingAssignments_inc ==
  /\ ta_pc = "iterating"
  /\ result.a = "SAT"
  /\ solver' = Solver_block(solver, result.m)
  /\ \E res \in TypingResults(solver') :
       /\ result' = res
       /\ yielded' = Yield(yielded, res)
       /\ ta_pc' = IF res.a = "UNKNOWN" THEN "aborted" ELSE ta_pc
  /\ UNCHANGED constraints
  /\ UNCHANGED <<verify_vars, type_vars, parse_vars,
                 tv_vars, eq_vars, const_vars>>

TypingInit ==
  /\ constraints \in SUBSET CandidateTypings
  /\ solver = CandidateTypings
  /\ result = DefaultResult
  /\ yielded = <<>>
  /\ ta_pc = "new"
  /\ VerifyIdle /\ TypeIdle /\ ParseIdle
  /\ TVIdle /\ EqIdle /\ ConstIdle

TypingNext == TypingAssignments_ctor \/ TypingAssignments_inc

\* the loop over the typings increments the iterator while it is Sat
TypingSpec ==
  TypingInit /\ [][TypingNext]_vars /\ WF_vars(TypingNext)

\* no typing assignment is held twice
NoTypingTwice ==
  \A i, j \in DOMAIN yielded : i < j => yielded[i] # yielded[j]

\* C7: the enumeration never yields the same typing assignment twice, each
\* later model differing from every earlier one on a type variable, and the
\* result becomes non-Sat after finitely many increments
C7_TypingsDistinctAndEnd ==
  /\ [](ta_pc # "idle" =>
          /\ NoTypingTwice
          /\ \A i \in DOMAIN yielded : yielded[i] \in constraints)
  /\ (ta_pc = "new") ~> (ta_pc # "new" /\ result.a # "SAT")

\* an enumeration of more than one typing that ended with Unsat
C7_Witness ==
  /\ ta_pc = "iterating"
  /\ Len(yielded) >= 2
  /\ result.a = "UNSAT"

(***************************************************************************)
(* The parser.  The input is the sequence of the tokens yylex returns; an  *)
(* operation on the parser state p gives back the state it leaves (ps) and *)
(* the value it returns (v).  A ParseException sets p.error, and what      *)
(* would run after the throw leaves the state alone.                       *)
(***************************************************************************)
\* the bound of the statements of an input
MaxStmts == 3

\* the bounds of the calls of parse and of the statements of the input of
\* a call after the first
MaxParses == 2
MaxStmtsAgain == 1

Token(t) == [t |-> t, str |-> "", num |-> 0]
StrToken(t, str) == [t |-> t, str |-> str, num |-> 0]
NumToken(t, num) == [t |-> t, str |-> "", num |-> num]

BinOpTokens == {"ADD", "SUB", "MUL", "SDIV", "UDIV", "SHL", "LSHR", "ASHR"}

\* the switch of parse_binop
BinOpOfToken(t) ==
  CASE t = "ADD" -> "Add" [] t = "SUB" -> "Sub" [] t = "MUL" -> "Mul"
    [] t = "SDIV" -> "SDiv" [] t = "UDIV" -> "UDiv" [] t = "SHL" -> "Shl"
    [] t = "LSHR" -> "LShr" [] t = "ASHR" -> "AShr"

\* a Function just constructed; types and instr_bb run along instrs
EmptyFunction ==
  [inputs |-> <<>>, constants |-> <<>>, instrs |-> <<>>, types |-> <<>>,
   instr_bb |-> <<>>]

\* a Transform just constructed
EmptyTransform == [name |-> "", src |-> EmptyFunction, tgt |-> EmptyFunction]

\* the function parse_fn is filling
Fn(p) == p.ret[Len(p.ret)][p.fn]

\* error(): the ParseException
error(p) == [p EXCEPT !.error = TRUE]

\* yylex: the next token, its value left in yylval; END at the end.
\* lexed records the tokens yylex has returned since yylex_init.
get_new_token(p) ==
  IF p.toks = <<>>
  THEN [ps |-> [p EXCEPT !.lexed = Append(@, "END")], v |-> "END"]
  ELSE LET t == Head(p.toks)
       IN [ps |-> [p EXCEPT
                     !.toks = Tail(@),
                     !.lexed = Append(@, t.t),
                     !.str = IF t.t \in {"IDENTIFIER", "LABEL", "NAME"}
                             THEN t.str ELSE @,
                     !.num = IF t.t \in {"NUM", "INT_TYPE"}
                             THEN t.num ELSE @],
           v |-> t.t]

\* the caller of the tokenizer is handed token t for good
deliver(p, t) == [p EXCEPT !.delivered = Append(@, t)]

\* the caller hands the token it was last given back
undeliver(p) ==
  [p EXCEPT !.delivered = IF @ = <<>> THEN @ ELSE SubSeq(@, 1, Len(@) - 1)]

\* tokenizer_t::operator*
tokenizer_get(p) ==
  IF p.returned
  THEN [ps |-> deliver([p EXCEPT !.returned = FALSE], p.last), v |-> p.last]
  ELSE LET g == get_new_token(p) IN [ps |-> deliver(g.ps, g.v), v |-> g.v]

\* tokenizer_t::peek
tokenizer_peek(p) ==
  IF p.returned THEN [ps |-> p, v |-> p.last]
  ELSE LET g == get_new_token(p)
       IN [ps |-> [g.ps EXCEPT !.returned = TRUE, !.last = g.v], v |-> g.v]

\* tokenizer_t::consumeIf
tokenizer_consumeIf(p, expected) ==
  IF p.error THEN [ps |-> p, v |-> FALSE]
  ELSE LET k == tokenizer_peek(p)
       IN IF k.v = expected
          THEN [ps |-> deliver([k.ps EXCEPT !.returned = FALSE], k.v),
                v |-> TRUE]
          ELSE [ps |-> k.ps, v |-> FALSE]

\* tokenizer_t::ensure
tokenizer_ensure(p, expected) ==
  IF p.error THEN p
  ELSE LET g == tokenizer_get(p)
       IN IF g.v # expected THEN error(g.ps) ELSE g.ps

\* tokenizer_t::unget; its assertion fails when a token is already held
tokenizer_unget(p, t) ==
  undeliver([p EXCEPT !.returned = TRUE, !.last = t,
                      !.abort = @ \/ p.returned])

\* tokenizer_t::empty
tokenizer_empty(p) ==
  LET k == tokenizer_peek(p) IN [ps |-> k.ps, v |-> k.v = "END"]

parse_name(p) ==
  LET c == tokenizer_consumeIf(p, "NAME")
  IN IF c.v THEN [c.ps EXCEPT !.ret[Len(c.ps.ret)].name = c.ps.str] ELSE c.ps

parse_pre(p) == tokenizer_consumeIf(p, "PRE").ps

parse_comma(p) == tokenizer_ensure(p, "COMMA")

NoType == IntType(0, FALSE)

parse_type(p, optional) ==
  IF p.error THEN [ps |-> p, v |-> NoType]
  ELSE LET g == tokenizer_get(p)
       IN IF g.v = "INT_TYPE"
          THEN [ps |-> g.ps, v |-> IntType(g.ps.num, TRUE)]
          ELSE IF optional
          THEN [ps |-> tokenizer_unget(g.ps, g.v), v |-> SymbolicType(TypeNums)]
          ELSE [ps |-> error(g.ps), v |-> NoType]

\* get_constant: every use of a number adds an IntConst to the function
get_constant(p, n, type) ==
  [ps |-> [p EXCEPT !.ret[Len(p.ret)][p.fn].constants =
                      Append(@, [type |-> type, n |-> n])],
   v |-> IntConst(n)]

parse_operand(p, type) ==
  IF p.error THEN [ps |-> p, v |-> NoOperand]
  ELSE LET g == tokenizer_get(p)
       IN CASE g.v = "NUM" -> get_constant(g.ps, g.ps.num, type)
            [] g.v = "IDENTIFIER" ->
                 LET id == g.ps.str
                 IN IF id \in DOMAIN g.ps.identifiers
                    THEN [ps |-> g.ps, v |-> g.ps.identifiers[id]]
                    ELSE [ps |-> [g.ps EXCEPT
                                    !.ret[Len(p.ret)][p.fn].inputs =
                                      Append(@, [name |-> id, type |-> type]),
                                    !.identifiers = (id :> Input(id)) @@ @],
                          v |-> Input(id)]
            [] OTHER -> [ps |-> error(g.ps), v |-> NoOperand]

RECURSIVE parse_nsw_nuw_from(_, _)
parse_nsw_nuw_from(p, flags) ==
  LET a == tokenizer_consumeIf(p, "NSW")
  IN IF a.v THEN parse_nsw_nuw_from(a.ps, flags \cup {"NSW"})
     ELSE LET b == tokenizer_consumeIf(a.ps, "NUW")
          IN IF b.v THEN parse_nsw_nuw_from(b.ps, flags \cup {"NUW"})
             ELSE [ps |-> b.ps, v |-> flags]

parse_nsw_nuw(p) == parse_nsw_nuw_from(p, {})

parse_exact(p) ==
  LET c == tokenizer_consumeIf(p, "EXACT")
  IN [ps |-> c.ps, v |-> IF c.v THEN {"Exact"} ELSE {}]

parse_binop_flags(p, op_token) ==
  IF op_token \in {"ADD", "SUB", "MUL", "SHL"} THEN parse_nsw_nuw(p)
  ELSE parse_exact(p)

\* parse_binop: the instruction (v) and its type
parse_binop(p, name, op_token) ==
  LET f == parse_binop_flags(p, op_token)
      t == parse_type(f.ps, TRUE)
      a == parse_operand(t.ps, t.v)
      c == parse_comma(a.ps)
      b == parse_operand(c, t.v)
  IN [ps |-> b.ps, type |-> t.v,
      v |-> BinOp(name, BinOpOfToken(op_token), f.v, a.v, b.v)]

parse_instr(p, name) ==
  LET q == tokenizer_ensure(p, "EQUALS")
      g == tokenizer_get(q)
  IN IF q.error THEN [ps |-> q, type |-> NoType, v |-> Unreachable]
     ELSE IF g.v \in BinOpTokens THEN parse_binop(g.ps, name, g.v)
     ELSE [ps |-> error(g.ps), type |-> NoType, v |-> Unreachable]

parse_return(p) ==
  LET t == parse_type(p, TRUE)
      val == parse_operand(t.ps, t.v)
  IN [ps |-> val.ps, type |-> t.v, v |-> Return(val.v)]

\* std::unordered_map::emplace: a key already there keeps its value
emplace(map, key, val) ==
  IF key \in DOMAIN map THEN map ELSE (key :> val) @@ map

VoidType == [kind |-> "VoidType"]

\* BasicBlock::addIntr, on the block parse_fn is in
addIntr(p, instr, type) ==
  [p EXCEPT !.ret[Len(p.ret)][p.fn] =
     [@ EXCEPT !.instrs = Append(@, instr),
               !.types = Append(@, type),
               !.instr_bb = Append(@, p.bb)]]

\* the entry of parse_fn(f) without identifiers.clear()
parse_fn_entryNoClear(p, f) == [p EXCEPT !.fn = f, !.bb = ""]

\* the entry of parse_fn(f), up to its loop
parse_fn_entry(p, f) == [p EXCEPT !.fn = f, !.identifiers = <<>>, !.bb = ""]

\* parse: the test of its loop and, for a further Transform, the calls up
\* to the loop of parse_fn(t.src)
Parse ==
  /\ parse_pc = "parse"
  /\ LET em == tokenizer_empty(ps)
     IN IF em.v
        THEN /\ ps' = [em.ps EXCEPT !.identifiers = <<>>]
             /\ parse_pc' = "done"
        ELSE /\ ps' = parse_fn_entry(
                        parse_pre(parse_name(
                          [em.ps EXCEPT !.ret = Append(@, EmptyTransform)])),
                        "src")
             /\ parse_pc' = "parse_fn"
  /\ UNCHANGED <<verify_vars, type_vars, typing_vars,
                 tv_vars, eq_vars, const_vars>>

\* one turn of the loop of parse_fn
ParseFnStep ==
  /\ parse_pc = "parse_fn"
  /\ LET g == tokenizer_get(ps)
     IN CASE g.v = "IDENTIFIER" ->
               LET name == g.ps.str
                   i == parse_instr(g.ps, name)
               IN IF i.ps.error
                  THEN ps' = i.ps /\ parse_pc' = "error"
                  ELSE /\ ps' = addIntr(
                                  [i.ps EXCEPT !.identifiers =
                                     emplace(@, name,
                                             Ref(Len(Fn(i.ps).instrs) + 1))],
                                  i.v, i.type)
                       /\ UNCHANGED parse_pc
          [] g.v = "LABEL" ->
               ps' = [g.ps EXCEPT !.bb = g.ps.str] /\ UNCHANGED parse_pc
          [] g.v = "RETURN" ->
               LET i == parse_return(g.ps)
               IN IF i.ps.error
                  THEN ps' = i.ps /\ parse_pc' = "error"
                  ELSE ps' = addIntr(i.ps, i.v, i.type) /\ UNCHANGED parse_pc
          [] g.v = "UNREACH" ->
               ps' = addIntr(g.ps, Unreachable, VoidType) /\ UNCHANGED parse_pc
          [] OTHER ->
               /\ ps' = tokenizer_unget(g.ps, g.v)
               /\ parse_pc' = IF ps.fn = "src" THEN "arrow" ELSE "parse"
  /\ UNCHANGED <<verify_vars, type_vars, typing_vars,
                 tv_vars, eq_vars, const_vars>>

\* parse_arrow, and the entry of parse_fn(t.tgt)
ParseArrow ==
  /\ parse_pc = "arrow"
  /\ LET q == tokenizer_ensure(ps, "ARROW")
     IN IF q.error
        THEN ps' = q /\ parse_pc' = "error"
        ELSE ps' = parse_fn_entry(q, "tgt") /\ parse_pc' = "parse_fn"
  /\ UNCHANGED <<verify_vars, type_vars, typing_vars,
                 tv_vars, eq_vars, const_vars>>

Id(str) == StrToken("IDENTIFIER", str)

\* the statements of the inputs, as the tokens of
\*   %a = add %x, %y          %a = sub nsw i8 %x, 1
\*   %x = udiv exact %a, %a   ret %a     unreachable
\*   %a = ret                 entry:     Name: t      =>
StmtPool ==
  { <<Id("%a"), Token("EQUALS"), Token("ADD"), Id("%x"), Token("COMMA"),
      Id("%y")>>,
    <<Id("%a"), Token("EQUALS"), Token("SUB"), Token("NSW"),
      NumToken("INT_TYPE", 8), Id("%x"), Token("COMMA"), NumToken("NUM", 1)>>,
    <<Id("%x"), Token("EQUALS"), Token("UDIV"), Token("EXACT"), Id("%a"),
      Token("COMMA"), Id("%a")>>,
    <<Token("RETURN"), Id("%a")>>,
    <<Token("UNREACH")>>,
    <<Id("%a"), Token("EQUALS"), Token("RETURN")>>,
    <<StrToken("LABEL", "entry")>>,
    <<StrToken("NAME", "t")>>,
    <<Token("ARROW")>> }

RECURSIVE Flatten(_)
Flatten(sq) == IF sq = <<>> THEN <<>> ELSE Head(sq) \o Flatten(Tail(sq))

InputsOf(n) == UNION {{Flatten(sq) : sq \in [1..k -> StmtPool]} : k \in 0..n}

ParseInputs == InputsOf(MaxStmts)

\* the entry of parse(buf): ret is a new vector and yylex_init(buf) points
\* the lexer at buf; the statics tokenizer, identifiers and fn and yylval
\* are as the program left them
parse_entry(p, buf) ==
  [p EXCEPT !.toks = buf, !.buf = buf, !.lexed = <<>>, !.delivered = <<>>,
            !.ret = <<>>, !.error = FALSE, !.calls = @ + 1]

\* the first call of parse: the tokenizer and the identifiers are as their
\* static initialisation left them
ParseInit ==
  /\ \E input \in ParseInputs :
       ps = parse_entry(
              [toks |-> <<>>, last |-> "END", returned |-> FALSE,
               str |-> "", num |-> 0, identifiers |-> <<>>, ret |-> <<>>,
               fn |-> "src", bb |-> "", error |-> FALSE, abort |-> FALSE,
               buf |-> <<>>, lexed |-> <<>>, delivered |-> <<>>, calls |-> 0],
              input)
  /\ parse_pc = "parse"
  /\ VerifyIdle /\ TypeIdle /\ TypingIdle
  /\ TVIdle /\ EqIdle /\ ConstIdle

\* a further call of parse, after the one before returned or threw
ParseAgain ==
  /\ parse_pc \in {"done", "error"}
  /\ ps.calls < MaxParses
  /\ \E input \in InputsOf(MaxStmtsAgain) : ps' = parse_entry(ps, input)
  /\ parse_pc' = "parse"
  /\ UNCHANGED <<verify_vars, type_vars, typing_vars,
                 tv_vars, eq_vars, const_vars>>

ParseNext == Parse \/ ParseFnStep \/ ParseArrow \/ ParseAgain

ParseSpec == ParseInit /\ [][ParseNext]_vars

\* the instructions parse_fn named after an identifier
NamedInstrs(f) == {i \in DOMAIN f.instrs : f.instrs[i].kind = "binop"}

NamesUnique(f) ==
  \A i, j \in NamedInstrs(f) :
     i # j => f.instrs[i].name # f.instrs[j].name

\* C10: after parse_fn on an accepted statement sequence, no two
\* instructions added to the function carry the same name
C10_NamesUnique ==
  parse_pc \in {"arrow", "parse", "done"} =>
    \A k \in DOMAIN ps.ret :
       NamesUnique(ps.ret[k].src) /\ NamesUnique(ps.ret[k].tgt)

(***************************************************************************)
(* The translation validation pass (tv/tv.cpp).  An llvm::Function is its  *)
(* name, its return type, the types of its arguments and its instructions; *)
(* the version of a function a call brings is numbered by the call.        *)
(***************************************************************************)
\* the bound of the calls of runOnFunction
MaxCalls == 5

TVNames == {"f", "g"}

LLVMInt(bw) == [id |-> "IntegerTyID", bits |-> bw]
LLVMVoid == [id |-> "VoidTyID", bits |-> 0]
LLVMFloat == [id |-> "FloatTyID", bits |-> 0]

\* llvm_type2alive: whether it gives a Type (and not nullptr)
llvm_type2alive(t) ==
  CASE t.id = "VoidTyID" -> TRUE
    [] t.id = "IntegerTyID" -> t.bits <= 64
    [] OTHER -> FALSE

\* llvm_instr2alive: whether it gives an instruction
llvm_instr2alive(i) ==
  CASE i.opcode \in BinOpOps -> llvm_type2alive(i.ty)
    [] i.opcode = "Ret" -> llvm_type2alive(i.ty)
    [] OTHER -> FALSE

\* llvm2alive: whether it gives a Function
llvm2alive(F) ==
  /\ llvm_type2alive(F.ret)
  /\ \A a \in DOMAIN F.args : llvm_type2alive(F.args[a])
  /\ \A i \in DOMAIN F.instrs : llvm_instr2alive(F.instrs[i])

\* the bodies of the functions the pass is run on: one that is imported,
\* and one each with an unsupported return type, argument and instruction
LLVMBodies ==
  LET add(t) == [opcode |-> "Add", ty |-> t]
      ret == [opcode |-> "Ret", ty |-> LLVMVoid]
      call == [opcode |-> "Call", ty |-> LLVMInt(32)]
  IN { [ret |-> LLVMInt(32), args |-> <<LLVMInt(32)>>,
        instrs |-> <<add(LLVMInt(32)), ret>>],
       [ret |-> LLVMInt(65), args |-> <<LLVMInt(32)>>,
        instrs |-> <<add(LLVMInt(32)), ret>>],
       [ret |-> LLVMInt(32), args |-> <<LLVMFloat>>,
        instrs |-> <<add(LLVMInt(32)), ret>>],
       [ret |-> LLVMInt(32), args |-> <<LLVMInt(32)>>,
        instrs |-> <<call, ret>>] }

\* no Function under that name in fns
NoFn == 0

\* a Function that was moved from
MovedFn == -1

\* TVPass::FatalErrors
FatalErrors == TRUE

\* fns.erase that erases nothing
fns_eraseNothing(fns, name) == fns

\* fns.erase(F.getName())
fns_erase(fns, name) == [fns EXCEPT ![name] = NoFn]

NoCall ==
  [name |-> "", id |-> 0, imported |-> FALSE, verified |-> FALSE,
   src |-> NoFn, tgt |-> NoFn, prev |-> NoFn]

\* TVPass::runOnFunction on version tv.calls + 1 of a function.  Beside
\* fns, the state keeps the call just made (last) and, for each name, the
\* latest version imported with no failed import since (recent).
RunOnFunction ==
  /\ tv # <<>>
  /\ tv.pc = "running"
  /\ tv.calls < MaxCalls
  /\ \E name \in TVNames, body \in LLVMBodies, errors \in BOOLEAN :
       LET id == tv.calls + 1
           fn == llvm2alive(body)
           call == [NoCall EXCEPT !.name = name, !.id = id,
                                  !.imported = fn, !.prev = tv.recent[name]]
           recent == [tv.recent EXCEPT ![name] = IF fn THEN id ELSE NoFn]
       IN IF ~fn
          THEN tv' = [tv EXCEPT !.fns = fns_erase(@, name), !.calls = id,
                                !.last = call, !.recent = recent]
          ELSE IF tv.fns[name] = NoFn
          THEN \* try_emplace inserted
               tv' = [tv EXCEPT !.fns[name] = id, !.calls = id,
                                !.last = call, !.recent = recent]
          ELSE LET t == [src |-> tv.fns[name], tgt |-> id]
                   verified == [call EXCEPT !.verified = TRUE,
                                            !.src = t.src, !.tgt = t.tgt]
               IN IF errors /\ FatalErrors
                  THEN \* llvm::report_fatal_error
                       tv' = [tv EXCEPT !.fns[name] = MovedFn, !.calls = id,
                                        !.last = verified, !.recent = recent,
                                        !.pc = "fatal"]
                  ELSE tv' = [tv EXCEPT !.fns[name] = t.tgt, !.calls = id,
                                        !.last = verified, !.recent = recent]
  /\ UNCHANGED <<verify_vars, type_vars, typing_vars, parse_vars, eq_vars,
                 const_vars>>

TVInit ==
  /\ tv = [fns |-> [n \in TVNames |-> NoFn], calls |-> 0, pc |-> "running",
           last |-> NoCall, recent |-> [n \in TVNames |-> NoFn]]
  /\ VerifyIdle /\ TypeIdle /\ TypingIdle /\ ParseIdle
  /\ EqIdle /\ ConstIdle

TVNext == RunOnFunction

TVSpec == TVInit /\ [][TVNext]_vars

\* C11: a call verifies exactly when it imports a version of a name whose
\* latest earlier import succeeded with no failed import since; the
\* transform it verifies has that version as source and the current one as
\* target; and fns holds, for each name, the version the next verified
\* transform must take as source (none after a failed import)
C11_SourceIsLatestImport ==
  tv # <<>> =>
    /\ tv.last.verified <=> (tv.last.imported /\ tv.last.prev # NoFn)
    /\ tv.last.verified =>
         (tv.last.src = tv.last.prev /\ tv.last.tgt = tv.last.id)
    /\ tv.pc = "running" => tv.fns = tv.recent

\* a transform verified against a version that was not the first call's,
\* with a call on the other name in between
C11_Witness ==
  /\ tv # <<>>
  /\ tv.pc = "running"
  /\ tv.last.verified
  /\ tv.last.src > 1
  /\ tv.last.src + 1 < tv.last.tgt

(***************************************************************************)
(* The per-value checks of Transform::verify.                              *)
(***************************************************************************)
\* the latest batch was run by the loop over the source values
PerValueBatch == qlog # <<>> /\ qlog[1].sel.kind = "val"

\* C12: in check_each_var mode the per-value check runs only for source
\* instructions whose name starts with '%' and that have a target
\* instruction of the same name, and a named source instruction with no
\* target counterpart is skipped: verify raises no exception
C12_MissingTargetSkipped ==
  /\ pc # "threw"
  /\ (pc = "each_var" /\ PerValueBatch) =>
       LET sel == qlog[1].sel
       IN /\ src[sel.si].name \in PercentNames
          /\ sel.ti \in DOMAIN tgt
          /\ tgt[sel.ti].name = src[sel.si].name

(***************************************************************************)
(* The constants (ir/constant.cpp).  A constant expression is evaluated    *)
(* under an assignment of its named constants, at one width.               *)
(***************************************************************************)
ConstantNames == {"C1", "C2"}

\* a named Constant
Constant(name) == [kind |-> "Constant", name |-> name]

ConstantBinOp(lhs, rhs, op) ==
  [kind |-> "ConstantBinOp", lhs |-> lhs, rhs |-> rhs, op |-> op]

ConstantFn(name) == [kind |-> "ConstantFn", name |-> name]

ConstantOps == {"ADD", "SUB", "SDIV", "UDIV"}

\* expr(): no expression
NoExpr == -1

\* div_ub that never asks for the signed condition
div_ubUnsigned(a, b, ub, sign, w) == ub /\ b # mkUInt(0, w)

\* div_ub: the ub it leaves
div_ub(a, b, ub, sign, w) ==
  /\ ub
  /\ b # mkUInt(0, w)
  /\ sign => (a # IntMin(w) \/ b # mkInt(-1, w))

\* toSMT_cnst of Constant, ConstantBinOp and ConstantFn: the value (first)
\* and the UB (second), under the assignment env
RECURSIVE toSMT_cnst(_, _, _)
toSMT_cnst(c, env, w) ==
  CASE c.kind = "Constant" -> [first |-> env[c.name], second |-> TRUE]
    [] c.kind = "ConstantFn" -> [first |-> NoExpr, second |-> TRUE]
    [] c.kind = "ConstantBinOp" ->
         LET a == toSMT_cnst(c.lhs, env, w)
             b == toSMT_cnst(c.rhs, env, w)
             ub == a.second /\ b.second
         IN CASE c.op = "ADD" ->
                   [first |-> mkUInt(a.first + b.first, w), second |-> ub]
              [] c.op = "SUB" ->
                   [first |-> mkInt(a.first - b.first, w), second |-> ub]
              [] c.op = "SDIV" ->
                   [first |-> bv_sdiv(a.first, b.first, w),
                    second |-> div_ub(a.first, b.first, ub, TRUE, w)]
              [] c.op = "UDIV" ->
                   [first |-> bv_udiv(a.first, b.first, w),
                    second |-> div_ub(a.first, b.first, ub, FALSE, w)]

\* State::addUB
State_addUB(ub, ex) == ub /\ ex

\* Constant::toSMT(s)
ConstantToSMT ==
  /\ cnst # <<>>
  /\ cnst.pc = "ready"
  /\ LET ret == toSMT_cnst(cnst.c, cnst.env, cnst.w)
     IN cnst' = [cnst EXCEPT
                   !.ub = State_addUB(@, ret.second),
                   !.val = StateValue(ret.first, TRUE),
                   !.pc = "done"]
  /\ UNCHANGED <<verify_vars, type_vars, typing_vars, parse_vars, tv_vars,
                 eq_vars>>

ConstantLeaves == {Constant(n) : n \in ConstantNames}

ConstantFlat ==
  {ConstantBinOp(l, r, op) : l \in ConstantLeaves, r \in ConstantLeaves,
                             op \in ConstantOps}

\* the constant expressions evaluated: the named constants, the functions,
\* and the operations on named constants and on one nested operation
ConstantPool ==
  ConstantLeaves \cup {ConstantFn("width"), ConstantFn("log2")}
  \cup ConstantFlat
  \cup {ConstantBinOp(l, r, op) :
          l \in ConstantFlat, r \in ConstantLeaves, op \in ConstantOps}
  \cup {ConstantBinOp(l, r, op) :
          l \in ConstantLeaves, r \in ConstantFlat, op \in ConstantOps}

ConstInit ==
  /\ \E c \in ConstantPool, w \in 1..MaxBits, ub \in BOOLEAN :
       \E env \in [ConstantNames -> BV(w)] :
          cnst = [c |-> c, w |-> w, env |-> env, ub0 |-> ub, ub |-> ub,
                  val |-> StateValue(0, FALSE), pc |-> "ready"]
  /\ VerifyIdle /\ TypeIdle /\ TypingIdle /\ ParseIdle
  /\ TVIdle /\ EqIdle

ConstNext == ConstantToSMT

ConstSpec == ConstInit /\ [][ConstNext]_vars

\* the value of a constant expression as a signed number, by the
\* arithmetic of the integers
RECURSIVE SignedValue(_, _, _)
SignedValue(c, env, w) ==
  IF c.kind = "Constant" THEN ToSigned(env[c.name], w)
  ELSE LET a == SignedValue(c.lhs, env, w)
           b == SignedValue(c.rhs, env, w)
           wrap(x) == ToSigned(x % Pow2(w), w)
           ua == a % Pow2(w)
           ub == b % Pow2(w)
       IN CASE c.op = "ADD" -> wrap(a + b)
            [] c.op = "SUB" -> wrap(a - b)
            [] c.op = "UDIV" -> IF ub = 0 THEN -1 ELSE wrap(ua \div ub)
            [] c.op = "SDIV" ->
                 IF b = 0 THEN (IF a < 0 THEN 1 ELSE -1)
                 ELSE wrap((IF (a < 0) = (b < 0) THEN 1 ELSE -1)
                           * (Abs(a) \div Abs(b)))

\* the UB the claim gives a constant expression
RECURSIVE ClaimedUB(_, _, _)
ClaimedUB(c, env, w) ==
  IF c.kind # "ConstantBinOp" THEN TRUE
  ELSE LET a == SignedValue(c.lhs, env, w)
           b == SignedValue(c.rhs, env, w)
       IN /\ ClaimedUB(c.lhs, env, w)
          /\ ClaimedUB(c.rhs, env, w)
          /\ c.op \in {"UDIV", "SDIV"} => b # 0
          /\ c.op = "SDIV" => ~(a = -Pow2(w - 1) /\ b = -1)

\* C13: the StateValue of Constant::toSMT has non_poison = true, and the UB
\* added to the state is the conjunction of the operands' UB with: nothing
\* for ADD and SUB, divisor != 0 for UDIV, divisor != 0 and not (dividend =
\* INT_MIN and divisor = -1) for SDIV
C13_ConstantUB ==
  (cnst # <<>> /\ cnst.pc = "done") =>
    /\ cnst.val.non_poison = TRUE
    /\ cnst.ub = (cnst.ub0 /\ ClaimedUB(cnst.c, cnst.env, cnst.w))

\* INT_MIN sdiv -1 evaluated in a state whose UB held until then
C13_Witness ==
  /\ cnst # <<>>
  /\ cnst.pc = "done"
  /\ cnst.c = ConstantBinOp(Constant("C1"), Constant("C2"), "SDIV")
  /\ cnst.env["C1"] = IntMin(cnst.w)
  /\ cnst.env["C2"] = mkInt(-1, cnst.w)
  /\ cnst.ub0 /\ ~cnst.ub

(***************************************************************************)
(* The equality of two Types as a predicate of the typing model.  The two  *)
(* Types belong to two operations, so each reads its own type and bw       *)
(* variable: ma is the model of the left one's, mb of the right one's.     *)
(***************************************************************************)
\* the bound of the widths of the models the equalities are evaluated in
MaxEqWidth == 2

\* IntType::operator==
IntType_eq(x, y, ma, mb) == IntType_sizeVar(x, ma) = IntType_sizeVar(y, mb)

\* PtrType::operator==
PtrType_eq(ma, mb) == ma.bw = mb.bw

\* FloatType::operator==, ArrayType::operator==, VectorType::operator==
TodoType_eq == FALSE

\* SymbolicType::operator==
SymbolicType_eq(a, b, ma, mb) ==
  IF b.kind = "IntType"
  THEN SymbolicType_is(a, TypeNum_Int, ma) /\ IntType_eq(a.i, b, ma, mb)
  ELSE /\ \/ SymbolicType_is(a, TypeNum_Int, ma) /\ IntType_eq(a.i, b.i, ma, mb)
          \/ SymbolicType_is(a, TypeNum_Float, ma) /\ TodoType_eq
          \/ SymbolicType_is(a, TypeNum_Ptr, ma) /\ PtrType_eq(ma, mb)
          \/ SymbolicType_is(a, TypeNum_Array, ma) /\ TodoType_eq
          \/ SymbolicType_is(a, TypeNum_Vector, ma) /\ TodoType_eq
       /\ ma.type = mb.type

\* SymbolicType::enforceIntType
SymbolicType_enforceIntType(t) ==
  [t EXCEPT !.enabled = @ \cap {TypeNum_Int}]

\* SymbolicType::enforceIntOrPtrOrVectorType
SymbolicType_enforceIntOrPtrOrVectorType(t) ==
  [t EXCEPT !.enabled = @ \cap {TypeNum_Int, TypeNum_Ptr, TypeNum_Vector}]

\* enforceIntType() on one of the two types
EqEnforceIntType ==
  /\ eq # <<>>
  /\ eq.pc = "ready"
  /\ \/ eq' = [eq EXCEPT !.a = SymbolicType_enforceIntType(@)]
     \/ eq' = [eq EXCEPT !.b = SymbolicType_enforceIntType(@)]
  /\ UNCHANGED <<verify_vars, type_vars, typing_vars, parse_vars, tv_vars,
                 const_vars>>

\* enforceIntOrPtrOrVectorType() on one of the two types
EqEnforceIntOrPtrOrVectorType ==
  /\ eq # <<>>
  /\ eq.pc = "ready"
  /\ \/ eq' = [eq EXCEPT !.a = SymbolicType_enforceIntOrPtrOrVectorType(@)]
     \/ eq' = [eq EXCEPT !.b = SymbolicType_enforceIntOrPtrOrVectorType(@)]
  /\ UNCHANGED <<verify_vars, type_vars, typing_vars, parse_vars, tv_vars,
                 const_vars>>

\* a == b and b == a are built and read under the model
EqCompare ==
  /\ eq # <<>>
  /\ eq.pc = "ready"
  /\ eq' = [eq EXCEPT !.ab = SymbolicType_eq(eq.a, eq.b, eq.ma, eq.mb),
                      !.ba = SymbolicType_eq(eq.b, eq.a, eq.mb, eq.ma),
                      !.pc = "compared"]
  /\ UNCHANGED <<verify_vars, type_vars, typing_vars, parse_vars, tv_vars,
                 const_vars>>

EqModels == [type : BV(var_type_bits), bw : 1..MaxEqWidth]

\* two symbolic types as constructed, every category enabled
EqInit ==
  /\ \E ma \in EqModels, mb \in EqModels :
       eq = [a |-> SymbolicType(TypeNums), b |-> SymbolicType(TypeNums),
             ma |-> ma, mb |-> mb, ab |-> FALSE, ba |-> FALSE,
             pc |-> "ready"]
  /\ VerifyIdle /\ TypeIdle /\ TypingIdle /\ ParseIdle
  /\ TVIdle /\ ConstIdle

EqNext == EqEnforceIntType \/ EqEnforceIntOrPtrOrVectorType \/ EqCompare

EqSpec == EqInit /\ [][EqNext]_vars

\* the equality of the variants of category n of the two types
VariantsEqual(n) ==
  CASE n = TypeNum_Int -> eq.ma.bw = eq.mb.bw
    [] n = TypeNum_Ptr -> eq.ma.bw = eq.mb.bw
    [] OTHER -> FALSE

\* C14: a == b holds under an assignment only if the common category is
\* enabled in a's mask and in b's mask and the two variants of it are
\* equal, and a == b and b == a are the same predicate
C14_EqualityOverSharedCategories ==
  (eq # <<>> /\ eq.pc = "compared") =>
    /\ eq.ab => \E n \in eq.a.enabled \cap eq.b.enabled :
                  /\ eq.ma.type = n /\ eq.mb.type = n
                  /\ VariantsEqual(n)
    /\ eq.ab = eq.ba

(***************************************************************************)
(* The implicit inputs of a parsed function.                               *)
(***************************************************************************)
\* the operands of the instructions of a function, each with the position
\* of the instruction that uses it and its place in that instruction
Uses(f) ==
  {<<j, f.instrs[j].a, "a">> : j \in {k \in DOMAIN f.instrs :
                                        f.instrs[k].kind \in {"binop", "ret"}}}
  \cup {<<j, f.instrs[j].b, "b">> : j \in {k \in DOMAIN f.instrs :
                                             f.instrs[k].kind = "binop"}}

InputsNamed(f, n) == {j \in DOMAIN f.inputs : f.inputs[j].name = n}

\* every Value the instructions of f use is a Value of f: an Input that f
\* holds exactly once, or an instruction f added before the use
OwnsItsValues(f) ==
  /\ \A u \in Uses(f) :
       /\ u[2].k = "input" => Cardinality(InputsNamed(f, u[2].n)) = 1
       /\ u[2].k = "instr" => u[2].i < u[1]
  /\ \A j \in DOMAIN f.inputs :
       Cardinality(InputsNamed(f, f.inputs[j].name)) = 1

\* C15: within one parsed function the first use of an undefined
\* identifier creates exactly one Input of that name and every later use
\* resolves to it, and the identifiers are cleared at the start of each
\* parse_fn, so that source and target never share a Value
C15_ImplicitInputs ==
  parse_pc # "idle" =>
    \A k \in DOMAIN ps.ret :
       OwnsItsValues(ps.ret[k].src) /\ OwnsItsValues(ps.ret[k].tgt)

\* a source that uses an undefined identifier twice and a target that uses
\* the same identifier: each holds its own Input of that name
C15_Witness ==
  /\ parse_pc = "done"
  /\ \E k \in DOMAIN ps.ret :
       LET f == ps.ret[k].src
           g == ps.ret[k].tgt
       IN \E n \in {"%a", "%x"} :
            /\ Cardinality({u \in Uses(f) : u[2] = Input(n)}) >= 2
            /\ \E u \in Uses(g) : u[2] = Input(n)
            /\ InputsNamed(f, n) # {} /\ InputsNamed(g, n) # {}

(***************************************************************************)
(* The models of the constraints of a SymbolicType.                        *)
(***************************************************************************)
\* C16: every model satisfying SymbolicType::getTypeConstraints gives the
\* type the category Int, enabled in its mask, with a width in 1..64; the
\* assertions of SymbolicType::fixup fail on no such model; and a type
\* whose mask excludes Int has no such model
C16_SymbolicConstraintsMeanInt ==
  (type_pc # "idle" /\ ty.kind = "SymbolicType") =>
    /\ sat = "sat" =>
         /\ model.type = TypeNum_Int
         /\ TypeNum_Int \in ty.enabled
         /\ model.bw \in 1..64
    /\ type_pc = "aborted" => ~SymbolicType_getTypeConstraints(ty, model)
    /\ TypeNum_Int \notin ty.enabled => sat # "sat"

\* a SymbolicType fixed up to i64 by a model that satisfies its constraints
C16_Witness ==
  /\ type_pc = "ready"
  /\ ty.kind = "SymbolicType"
  /\ sat = "sat"
  /\ fixups >= 1
  /\ ty.typ = TypeNum_Int
  /\ ty.i.bitwidth = 64

(***************************************************************************)
(* The one-token lookahead of the tokenizer.                               *)
(***************************************************************************)
\* the i-th token of the lexer since yylex_init: those of the buffer, then
\* END for ever
LexerToken(p, i) == IF i <= Len(p.buf) THEN p.buf[i].t ELSE "END"

LookaheadKeepsTokens(p) ==
  /\ ~p.abort
  /\ \A i \in DOMAIN p.delivered : p.delivered[i] = LexerToken(p, i)
  /\ Len(p.lexed) <= Len(p.delivered) + (IF p.returned THEN 1 ELSE 0)
  /\ p.returned => p.last = LexerToken(p, Len(p.delivered) + 1)

\* C17: the assertion of unget never fails; the tokens the consuming
\* operations have delivered and not had handed back are the first tokens
\* of the lexer, in order; the lexer has been read at most once for each of
\* them and for the held token; the held token, which peek returns, is the
\* next token of the lexer; and when parse returns, every token of the
\* buffer has been delivered
C17_LookaheadKeepsTokens ==
  parse_pc # "idle" =>
    /\ LookaheadKeepsTokens(ps)
    /\ parse_pc = "done" => Len(ps.delivered) = Len(ps.buf)
====
